---- MODULE Spec2Model ----
(***************************************************************************)
(* A model of pygrad/engine.py: the scalar reverse-mode autodiff engine.   *)
(*                                                                         *)
(* A Value is a record of the six attributes set by Value.__init__.  The   *)
(* graph is the sequence `nodes` of all Values constructed so far, in     *)
(* construction order; an operand reference is the index of the operand   *)
(* (0 models Python's None).  Floats are modelled by exact rationals       *)
(* <<numerator, denominator>> in lowest terms; a number whose numerator or *)
(* denominator leaves the modelled range is NaR and no action produces it. *)
(***************************************************************************)
EXTENDS Integers, Sequences, FiniteSets, TLC

\* ------------------------------------------------------------------ bounds
MaxLeaves == 1
MaxOps == 2
MaxBackward == 2
MaxExp == 2
StepLeaves == 1
StepBackward == 1
MaxInt == 100000000

\* ------------------------------------------------------------ float model
Abs(a) == IF a < 0 THEN 0 - a ELSE a

GCD[a \in Nat, b \in Nat] == IF b = 0 THEN a ELSE GCD[b, a % b]

\* Not-a-rational: the result left the modelled range.
NaR == <<0, 0>>
IsNaR(q) == q[2] = 0

\* The value of a one-element set: operands are evaluated once.
Val(S) == CHOOSE v \in S : TRUE

\* a * b stays in range (decided without computing the product).
MulFits(a, b) == a = 0 \/ b = 0 \/ Abs(a) <= MaxInt \div Abs(b)

\* n/d in lowest terms with a positive denominator (d # 0).
NormV(n, d) ==
    LET g == GCD[Abs(n), Abs(d)]
        s == IF d < 0 THEN 0 - 1 ELSE 1
    IN <<(s * n) \div g, (s * d) \div g>>
Norm(n, d) == Val({NormV(x, y) : x \in {n}, y \in {d}})

Zero == <<0, 1>>
One == <<1, 1>>
R(i) == <<i, 1>>

RMulV(a, b) ==
    IF IsNaR(a) \/ IsNaR(b) THEN NaR
    ELSE LET p == Norm(a[1], b[2])
             q == Norm(b[1], a[2])
         IN IF MulFits(p[1], q[1]) /\ MulFits(p[2], q[2])
            THEN <<p[1] * q[1], p[2] * q[2]>>
            ELSE NaR
RMul(a, b) == Val({RMulV(x, y) : x \in {a}, y \in {b}})

RAddV(a, b) ==
    IF IsNaR(a) \/ IsNaR(b) THEN NaR
    ELSE LET g == GCD[a[2], b[2]]
             fa == b[2] \div g
             fb == a[2] \div g
         IN IF MulFits(a[1], fa) /\ MulFits(b[1], fb) /\ MulFits(a[2], fa)
            THEN Norm(a[1] * fa + b[1] * fb, a[2] * fa)
            ELSE NaR
RAdd(a, b) == Val({RAddV(x, y) : x \in {a}, y \in {b}})

RNeg(a) == IF IsNaR(a) THEN NaR ELSE <<0 - a[1], a[2]>>
RSub(a, b) == RAdd(a, RNeg(b))
\* 1/a for a # 0.
RInv(a) == IF IsNaR(a) \/ a[1] = 0 THEN NaR ELSE Norm(a[2], a[1])
\* a / b for b # 0.
RDiv(a, b) == RMul(a, RInv(b))
RIsZero(a) == a[1] = 0 /\ a[2] # 0
RGt(a, b) == a[1] * b[2] > b[1] * a[2]

RECURSIVE RPowNat(_, _)
RPowNat(a, n) == IF n = 0 THEN One ELSE RMul(a, RPowNat(a, n - 1))
\* Python's float ** int, defined unless a = 0 and n < 0.
RPow(a, n) == IF n >= 0 THEN RPowNat(a, n) ELSE RInv(RPowNat(a, 0 - n))
\* Python's bool as a number.
RBool(b) == IF b THEN One ELSE Zero

\* math.tanh, to two decimal places, on the integers -2..2.
TanhDomain == {R(0 - 2), R(0 - 1), R(0), R(1), R(2)}
MathTanh(x) ==
    CASE x = R(0) -> Zero
      [] x = R(1) -> <<19, 25>>
      [] x = R(2) -> <<24, 25>>
      [] x = R(0 - 1) -> <<0 - 19, 25>>
      [] x = R(0 - 2) -> <<0 - 24, 25>>

\* ------------------------------------------------------------------ state
VARIABLES nodes, last, calls, stack, visits
vars == <<nodes, last, calls, stack, visits>>
\* nodes  : every Value constructed so far, in construction order
\* last   : the most recent call of the public interface and how it ended
\* calls  : the start nodes of the backward() calls made so far
\* stack  : the traverse() frames of the backward() call in progress
\* visits : per node, the deposits made into it by the latest backward()

\* Python's None, for grad_child_1 / grad_child_2; a child of 0 is None.
None == <<>>

\* A variant: the gradient starts at 1.0.
NewValueSeeded(data) ==
    [data |-> data, grad |-> One, child_1 |-> 0, child_2 |-> 0,
     grad_child_1 |-> None, grad_child_2 |-> None]

\* Value.__init__
NewValue(data) ==
    [data |-> data, grad |-> Zero, child_1 |-> 0, child_2 |-> 0,
     grad_child_1 |-> None, grad_child_2 |-> None]

Binary(data, g1, g2, self, other) ==
    [NewValue(data) EXCEPT !.grad_child_1 = g1, !.grad_child_2 = g2,
                           !.child_1 = self, !.child_2 = other]

\* A variant: a unary result also records a second local derivative.
UnaryStrayGrad(data, g1, self) ==
    [NewValue(data) EXCEPT !.grad_child_1 = g1, !.grad_child_2 = One,
                           !.child_1 = self]

Unary(data, g1, self) ==
    [NewValue(data) EXCEPT !.grad_child_1 = g1, !.child_1 = self]

\* The node each operation returns; x = self.data, y = other.data.
AddOut(x, y, self, other) == Binary(RAdd(x, y), One, One, self, other)

SubOut(x, y, self, other) == Binary(RSub(x, y), One, RNeg(One), self, other)

MulOut(x, y, self, other) == Binary(RMul(x, y), y, x, self, other)

TrueDivOut(x, y, self, other) ==
    Binary(RDiv(x, y), RDiv(One, y), RDiv(RNeg(x), RPow(y, 2)), self, other)

PowOut(x, power, self) ==
    Unary(RPow(x, power), RMul(R(power), RPow(x, power - 1)), self)

NegOut(x, self) == Unary(RNeg(x), RNeg(One), self)

TanhOut(x, self) ==
    LET data == MathTanh(x) IN Unary(data, RSub(One, RPow(data, 2)), self)

\* A variant: the positive branch is taken at x = 0 as well.
ReluOutGe(x, self) ==
    Unary(RMul(x, RBool(~RGt(Zero, x))), RMul(One, RBool(~RGt(Zero, x))), self)

ReluOut(x, self) ==
    Unary(RMul(x, RBool(RGt(x, Zero))), RMul(One, RBool(RGt(x, Zero))), self)

\* Every number of the node is in the modelled range.
InRange(v) ==
    /\ ~IsNaR(v.data)
    /\ IF v.grad_child_1 = None THEN TRUE ELSE ~IsNaR(v.grad_child_1)
    /\ IF v.grad_child_2 = None THEN TRUE ELSE ~IsNaR(v.grad_child_2)

\* `self ** power` raises ZeroDivisionError: 0.0 to a negative power, in the
\* forward value (power < 0) or in the derivative's x ** (power - 1).
PowRaises(x, power) == RIsZero(x) /\ (power < 0 \/ power - 1 < 0)

\* `self / other` raises ZeroDivisionError.
TrueDivRaises(y) == RIsZero(y)

Call(op, self, other, out, err) ==
    [op |-> op, self |-> self, other |-> other, out |-> out, err |-> err]

\* --------------------------------------------------------------- backward
Child(ns, n, k) == IF k = 1 THEN ns[n].child_1 ELSE ns[n].child_2
GradChild(ns, n, k) == IF k = 1 THEN ns[n].grad_child_1 ELSE ns[n].grad_child_2

\* A variant: the start node's grad is incremented, not reset.
SeedAdd(grad) == RAdd(grad, One)

\* backward(): self.grad = 1.0
Seed(grad) == One

\* A variant: the parent's grad is left out of the product.
DepositNoChain(grad, self_grad, child_grad) == RAdd(grad, child_grad)

\* A variant: the contribution overwrites the grad instead of adding to it.
DepositAssign(grad, self_grad, child_grad) == RMul(self_grad, child_grad)

\* traverse(): other.grad += self.grad * child_grad
Deposit(grad, self_grad, child_grad) == RAdd(grad, RMul(self_grad, child_grad))

Frame(n, k) == [node |-> n, slot |-> k]

\* The state of a backward() call: the graph, the frames of the calls in
\* progress and the deposits counted so far.
Pass(ns, st, vs) == [nodes |-> ns, stack |-> st, visits |-> vs]

\* A variant: every grad is cleared before the start node is seeded.
BackwardEnterZeroed(ns, r) ==
    Pass([i \in 1..Len(ns) |->
              [ns[i] EXCEPT !.grad = IF i = r THEN One ELSE Zero]],
         <<Frame(r, 1)>>,
         [i \in 1..Len(ns) |-> 0])

\* backward() up to its first traverse() call: seed the start node.
BackwardEnter(ns, r) ==
    Pass([ns EXCEPT ![r].grad = Seed(ns[r].grad)],
         <<Frame(r, 1)>>,
         [i \in 1..Len(ns) |-> 0])

\* A variant: a node already visited receives the deposit but is not entered
\* again.
TraverseStepOnce(p) ==
    LET top == Len(p.stack)
        n == p.stack[top].node
        k == p.stack[top].slot
        other == Child(p.nodes, n, k)
        advanced == [p.stack EXCEPT ![top].slot = k + 1]
    IN IF k = 3 THEN [p EXCEPT !.stack = SubSeq(p.stack, 1, top - 1)]
       ELSE IF other = 0 THEN [p EXCEPT !.stack = advanced]
       ELSE Pass([p.nodes EXCEPT ![other].grad =
                      Deposit(p.nodes[other].grad, p.nodes[n].grad,
                              GradChild(p.nodes, n, k))],
                 IF p.visits[other] > 0 THEN advanced
                 ELSE Append(advanced, Frame(other, 1)),
                 [p.visits EXCEPT ![other] = @ + 1])

\* One traverse() call of the frame on top of the stack.  The frame of node
\* n at slot k is the body of backward()/traverse() of n about to call
\* n.traverse(n.child_k, n.grad_child_k); at slot 3 the body returns.
TraverseStep(p) ==
    LET top == Len(p.stack)
        n == p.stack[top].node
        k == p.stack[top].slot
        other == Child(p.nodes, n, k)
        advanced == [p.stack EXCEPT ![top].slot = k + 1]
    IN IF k = 3 THEN [p EXCEPT !.stack = SubSeq(p.stack, 1, top - 1)]
       ELSE IF other = 0 THEN [p EXCEPT !.stack = advanced]
       ELSE Pass([p.nodes EXCEPT ![other].grad =
                      Deposit(p.nodes[other].grad, p.nodes[n].grad,
                              GradChild(p.nodes, n, k))],
                 Append(advanced, Frame(other, 1)),
                 [p.visits EXCEPT ![other] = @ + 1])

\* The call runs until its last frame has returned.
RECURSIVE RunPass(_)
RunPass(p) ==
    IF p.stack = <<>> THEN p
    ELSE CHOOSE done \in {RunPass(q) : q \in {TraverseStep(p)}} : TRUE

BackwardResult(ns, r) == RunPass(BackwardEnter(ns, r))

GradsInRange(ns) == \A i \in 1..Len(ns) : ~IsNaR(ns[i].grad)

\* ---------------------------------------------------------------- actions
\* The leaves the calling script has constructed: up to MaxLeaves Values with
\* data from LeafData, or the three leaves of the module's usage example.
LeafData == {0 - 1, 0, 2}
Example == <<2, 3, 4>>
Sorted(ds) == \A i \in 1..(Len(ds) - 1) : ds[i] <= ds[i + 1]
LeafConfigs ==
    {ds \in UNION {[1..n -> LeafData] : n \in 1..MaxLeaves} : Sorted(ds)}
        \cup {Example}
Exponents == 0..MaxExp
Idx == 1..Len(nodes)

IsLeaf(v) == v.child_1 = 0 /\ v.child_2 = 0
\* The operator calls made so far (each returned a node).
Ops(ns) == Cardinality({i \in 1..Len(ns) : ~IsLeaf(ns[i])})

InitFrom(configs) ==
    /\ \E ds \in configs : nodes = [i \in 1..Len(ds) |-> NewValue(R(ds[i]))]
    /\ last = Call("Value", 0, 0, Len(nodes), "")
    /\ calls = <<>>
    /\ stack = <<>>
    /\ visits = [i \in 1..Len(nodes) |-> 0]

Init == InitFrom(LeafConfigs)

\* A call that returns the new node v.
Returns(op, self, other, v) ==
    /\ Ops(nodes) < MaxOps
    /\ InRange(v)
    /\ nodes' = Append(nodes, v)
    /\ visits' = Append(visits, 0)
    /\ last' = Call(op, self, other, Len(nodes) + 1, "")
    /\ UNCHANGED <<calls, stack>>

\* A call that raises: no node is returned.
Raises(op, self, other, err) ==
    /\ Ops(nodes) < MaxOps
    /\ last' = Call(op, self, other, 0, err)
    /\ UNCHANGED <<nodes, calls, stack, visits>>

Add(i, j) == Returns("add", i, j, AddOut(nodes[i].data, nodes[j].data, i, j))

Sub(i, j) == Returns("sub", i, j, SubOut(nodes[i].data, nodes[j].data, i, j))

Mul(i, j) == Returns("mul", i, j, MulOut(nodes[i].data, nodes[j].data, i, j))

TrueDiv(i, j) ==
    IF TrueDivRaises(nodes[j].data)
    THEN Raises("truediv", i, j, "ZeroDivisionError")
    ELSE Returns("truediv", i, j,
                 TrueDivOut(nodes[i].data, nodes[j].data, i, j))

\* self ** power, power a plain number.
Pow(i, power) ==
    IF PowRaises(nodes[i].data, power)
    THEN Raises("pow", i, power, "ZeroDivisionError")
    ELSE Returns("pow", i, power, PowOut(nodes[i].data, power, i))

\* self ** power, power a Value: float ** Value is not defined.
PowValue(i, j) == Raises("powvalue", i, j, "TypeError")

Neg(i) == Returns("neg", i, 0, NegOut(nodes[i].data, i))

Tanh(i) ==
    /\ nodes[i].data \in TanhDomain
    /\ Returns("tanh", i, 0, TanhOut(nodes[i].data, i))

Relu(i) == Returns("relu", i, 0, ReluOut(nodes[i].data, i))

\* r.backward(), from call to return.
Backward(r) ==
    LET p == BackwardResult(nodes, r)
    IN /\ Len(calls) < MaxBackward
       /\ GradsInRange(p.nodes)
       /\ nodes' = p.nodes
       /\ visits' = p.visits
       /\ calls' = Append(calls, r)
       /\ last' = Call("backward", r, 0, 0, "")
       /\ UNCHANGED stack

\* No frame is in progress and no exception has ended the calling script
\* (the engine catches nothing, so a raised exception ends the run).
Idle == stack = <<>> /\ last.err = ""

Next ==
    /\ Idle
    /\ \/ \E i, j \in Idx : Add(i, j)
       \/ \E i, j \in Idx : Sub(i, j)
       \/ \E i, j \in Idx : Mul(i, j)
       \/ \E i, j \in Idx : TrueDiv(i, j)
       \/ \E i \in Idx : \E power \in Exponents : Pow(i, power)
       \/ \E i, j \in Idx : PowValue(i, j)
       \/ \E i \in Idx : Neg(i)
       \/ \E i \in Idx : Tanh(i)
       \/ \E i \in Idx : Relu(i)
       \/ \E r \in Idx : Backward(r)

Spec == Init /\ [][Next]_vars

\* ------------------------------------------------- backward, call by call
\* The same program with backward() run one traverse() call at a time.
StepConfigs == {ds \in LeafConfigs : Len(ds) <= StepLeaves}

StepInit == InitFrom(StepConfigs)

\* r.backward() is called: the start node is seeded and its body begins.
BackwardCall(r) ==
    LET p == BackwardEnter(nodes, r)
    IN /\ Len(calls) < StepBackward
       /\ GradsInRange(BackwardResult(nodes, r).nodes)
       /\ nodes' = p.nodes
       /\ stack' = p.stack
       /\ visits' = p.visits
       /\ calls' = Append(calls, r)
       /\ last' = Call("backward", r, 0, 0, "")

\* A variant: a body that has made both of its traverse() calls never returns.
TraverseStuck ==
    LET p == TraverseStep(Pass(nodes, stack, visits))
    IN /\ stack # <<>>
       /\ stack[Len(stack)].slot # 3
       /\ nodes' = p.nodes
       /\ stack' = p.stack
       /\ visits' = p.visits
       /\ UNCHANGED <<calls, last>>

\* The body on top of the stack makes its next traverse() call, or returns.
Traverse ==
    LET p == TraverseStep(Pass(nodes, stack, visits))
    IN /\ stack # <<>>
       /\ nodes' = p.nodes
       /\ stack' = p.stack
       /\ visits' = p.visits
       /\ UNCHANGED <<calls, last>>

StepNext ==
    \/ /\ Idle
       /\ \/ \E i, j \in Idx : Add(i, j)
          \/ \E i, j \in Idx : Sub(i, j)
          \/ \E i, j \in Idx : Mul(i, j)
          \/ \E i, j \in Idx : TrueDiv(i, j)
          \/ \E i \in Idx : \E power \in Exponents : Pow(i, power)
          \/ \E i, j \in Idx : PowValue(i, j)
          \/ \E i \in Idx : Neg(i)
          \/ \E i \in Idx : Tanh(i)
          \/ \E i \in Idx : Relu(i)
          \/ \E r \in Idx : BackwardCall(r)
    \/ Traverse

\* The interpreter is synchronous: a call in progress keeps running.
StepSpec == StepInit /\ [][StepNext]_vars /\ WF_vars(Traverse)

\* ------------------------------------------------------- reference notions
\* The nodes reachable from r through operand references, r included.
RECURSIVE Cone(_, _)
Cone(ns, r) ==
    {r} \cup (IF ns[r].child_1 = 0 THEN {} ELSE Cone(ns, ns[r].child_1))
        \cup (IF ns[r].child_2 = 0 THEN {} ELSE Cone(ns, ns[r].child_2))

\* The operand paths from r to n, the two slots being distinct edges.
RECURSIVE NumPaths(_, _, _)
NumPaths(ns, r, n) ==
    IF r = n THEN 1
    ELSE (IF ns[r].child_1 = 0 THEN 0 ELSE NumPaths(ns, ns[r].child_1, n))
       + (IF ns[r].child_2 = 0 THEN 0 ELSE NumPaths(ns, ns[r].child_2, n))

\* d r.data / d n.data by the chain rule: the sum over the operand paths
\* from r to n of the product of the local derivatives along the path.
RECURSIVE TrueGrad(_, _, _)
TrueGrad(ns, r, n) ==
    IF r = n THEN One
    ELSE RAdd(IF ns[r].child_1 = 0 THEN Zero
              ELSE RMul(ns[r].grad_child_1, TrueGrad(ns, ns[r].child_1, n)),
              IF ns[r].child_2 = 0 THEN Zero
              ELSE RMul(ns[r].grad_child_2, TrueGrad(ns, ns[r].child_2, n)))

\* The operand slots of the nodes of S that hold n.
SlotUses(ns, S, n) ==
    Cardinality({m \in S : ns[m].child_1 = n})
        + Cardinality({m \in S : ns[m].child_2 = n})

\* The expression under r is a tree: no node is an operand twice.
TreeShaped(ns, r) ==
    \A n \in Cone(ns, r) : SlotUses(ns, Cone(ns, r), n) <= 1

\* Some non-leaf node under r is an operand more than once.
SharedIntermediate(ns, r) ==
    \E n \in Cone(ns, r) : ~IsLeaf(ns[n]) /\ SlotUses(ns, Cone(ns, r), n) > 1

\* Exactly one backward() call has been made and has returned: every grad
\* was 0.0 when it started.
OnePass == Len(calls) = 1 /\ stack = <<>>

GradsCorrect(S) == \A n \in S : nodes[n].grad = TrueGrad(nodes, calls[1], n)

Leaves(S) == {n \in S : IsLeaf(nodes[n])}

\* out = (a + b) * c on the leaves a = 2, b = 3, c = 4, after out.backward().
ExampleBuilt ==
    /\ Len(nodes) = 5
    /\ nodes[1].data = R(2) /\ nodes[2].data = R(3) /\ nodes[3].data = R(4)
    /\ last.op = "backward" /\ last.self = 5 /\ calls = <<5>>
    /\ nodes[4].child_1 = 1 /\ nodes[4].child_2 = 2
    /\ nodes[4].grad_child_1 = One /\ nodes[4].grad_child_2 = One
    /\ nodes[5].child_1 = 4 /\ nodes[5].child_2 = 3
    /\ nodes[5].grad_child_1 = R(4) /\ nodes[5].grad_child_2 = R(5)

\* ------------------------------------------------------------------ claims
\* C1: on a tree-shaped expression built from fresh leaves, one backward()
\* call on the root leaves in every node reachable from the root the partial
\* derivative of the root with respect to it (the product of the local
\* derivatives along its path); (a + b) * c at 2, 3, 4 gives data 20 and
\* grads 4, 4, 5.
C1_TreeGradients ==
    /\ (OnePass /\ TreeShaped(nodes, calls[1]))
           => GradsCorrect(Cone(nodes, calls[1]))
    /\ ExampleBuilt =>
           /\ nodes[5].data = R(20)
           /\ nodes[1].grad = R(4) /\ nodes[2].grad = R(4)
           /\ nodes[3].grad = R(5)

\* A tree of depth two whose path products are not all 1, and the example.
C1_Witness ==
    /\ ExampleBuilt
    /\ TreeShaped(nodes, 5)
    /\ nodes[1].grad = R(4) /\ nodes[3].grad = R(5)

\* C2: when a non-leaf node is reused as an operand, one backward() call
\* leaves in every leaf the total derivative of the output (the sum over all
\* paths of the path products), each contribution summed exactly once.
C2_SharedIntermediateGradients ==
    (OnePass /\ SharedIntermediate(nodes, calls[1]))
        => GradsCorrect(Leaves(Cone(nodes, calls[1])))

\* C3: when only leaves are reused as operands, one backward() call leaves
\* in every reachable node the total derivative of the output.
C3_SharedLeafGradients ==
    (OnePass /\ ~SharedIntermediate(nodes, calls[1]))
        => GradsCorrect(Cone(nodes, calls[1]))

\* A leaf used in both slots of a node below the root, with a non-zero sum.
C3_Witness ==
    /\ OnePass
    /\ ~SharedIntermediate(nodes, calls[1])
    /\ \E n \in Cone(nodes, calls[1]) :
           /\ IsLeaf(nodes[n])
           /\ NumPaths(nodes, calls[1], n) > 1
           /\ calls[1] # n
           /\ nodes[calls[1]].child_1 # n
           /\ ~RIsZero(nodes[n].grad)
           /\ nodes[n].grad = TrueGrad(nodes, calls[1], n)

\* The call that has just returned a node, its operands and its result.
Returned(op) == last.op = op /\ last.err = ""
X == nodes[last.self].data
Y == nodes[last.other].data
Out == nodes[last.out]

IsUnaryOf(v, self) ==
    /\ v.child_1 = self /\ v.child_2 = 0
    /\ v.grad_child_1 # None /\ v.grad_child_2 = None

IsBinaryOf(v, self, other) ==
    /\ v.child_1 = self /\ v.child_2 = other
    /\ v.grad_child_1 # None /\ v.grad_child_2 # None

\* C4: add, subtract, multiply, divide, negate, tanh and relu return a new
\* node whose data is the mathematical result on the operands' data, whose
\* local derivatives are the table's entries at those data (relu at exactly
\* 0: data 0, derivative 0) and whose own grad is 0.  Division by a zero
\* divisor, where the table's entries are undefined, is the one call that
\* returns nothing.
C4_ForwardAndLocalDerivatives ==
    /\ last.op \in {"add", "sub", "mul", "truediv", "neg", "tanh", "relu"}
           => /\ last.err # "" => (last.op = "truediv" /\ RIsZero(Y))
              /\ last.err = "" =>
                     /\ last.out = Len(nodes)
                     /\ Out.grad = Zero
    /\ Returned("add") =>
           /\ IsBinaryOf(Out, last.self, last.other)
           /\ Out.data = RAdd(X, Y)
           /\ Out.grad_child_1 = One /\ Out.grad_child_2 = One
    /\ Returned("sub") =>
           /\ IsBinaryOf(Out, last.self, last.other)
           /\ Out.data = RAdd(X, RNeg(Y))
           /\ Out.grad_child_1 = One /\ Out.grad_child_2 = R(0 - 1)
    /\ Returned("mul") =>
           /\ IsBinaryOf(Out, last.self, last.other)
           /\ Out.data = RMul(X, Y)
           /\ Out.grad_child_1 = Y /\ Out.grad_child_2 = X
    /\ Returned("truediv") =>
           /\ IsBinaryOf(Out, last.self, last.other)
           /\ RMul(Out.data, Y) = X
           /\ RMul(Out.grad_child_1, Y) = One
           /\ RMul(Out.grad_child_2, RMul(Y, Y)) = RNeg(X)
    /\ Returned("neg") =>
           /\ IsUnaryOf(Out, last.self)
           /\ RAdd(Out.data, X) = Zero
           /\ Out.grad_child_1 = R(0 - 1)
    /\ Returned("tanh") =>
           /\ IsUnaryOf(Out, last.self)
           /\ Out.data = MathTanh(X)
           /\ Out.grad_child_1 = RSub(One, RMul(MathTanh(X), MathTanh(X)))
    /\ Returned("relu") =>
           /\ IsUnaryOf(Out, last.self)
           /\ Out.data = (IF RGt(X, Zero) THEN X ELSE Zero)
           /\ Out.grad_child_1 = (IF RGt(X, Zero) THEN One ELSE Zero)

\* relu of a node whose data is exactly 0.
C4_Witness ==
    /\ Returned("relu")
    /\ X = Zero
    /\ Out.data = Zero /\ Out.grad_child_1 = Zero /\ Out.grad = Zero

\* C5: x ** n with n a plain number succeeds for every x and n, x = 0 and
\* n = 0 included, and returns a unary node with data x^n, child_1 the base
\* and grad_child_1 = n * x^(n - 1).
C5_PlainPowerAlwaysReturns ==
    last.op = "pow" =>
        /\ last.err = ""
        /\ IsUnaryOf(Out, last.self)
        /\ Out.data = RPow(X, last.other)
        /\ Out.grad_child_1 = RMul(R(last.other), RPow(X, last.other - 1))

\* C6: x ** y with y a Value returns a binary node with child_1 the base,
\* child_2 the exponent and both local derivatives set.
C6_ValuePowerReturnsBinary ==
    last.op = "powvalue" =>
        /\ last.err = ""
        /\ IsBinaryOf(Out, last.self, last.other)

\* C7: when n.backward() has returned, n.grad is 1.0, whatever it held.
C7_RootSeeding ==
    (last.op = "backward" /\ stack = <<>>) => nodes[last.self].grad = One

\* The second backward() starts at the operand of the first one's start
\* node, which the first call left with a grad other than 0 and 1.
C7_Witness ==
    /\ last.op = "backward" /\ stack = <<>>
    /\ Len(calls) = 2 /\ calls[2] = last.self
    /\ nodes[calls[1]].child_1 = calls[2]
    /\ nodes[calls[1]].child_2 = 0
    /\ nodes[calls[1]].grad_child_1 \notin {Zero, One}
    /\ ~IsLeaf(nodes[calls[2]])
    /\ nodes[calls[2]].child_1 = nodes[calls[2]].child_2
    /\ nodes[calls[2]].grad = One

\* The start node of the backward() call made last.
Root == calls[Len(calls)]

Reached(n) == \E c \in 1..Len(calls) : n \in Cone(nodes, calls[c])

\* A node no backward() call has reached still has grad 0.0.
C8_Untouched == \A n \in Idx : ~Reached(n) => nodes[n].grad = Zero

\* A step keeps every existing node's data, operands and local derivatives,
\* and changes a grad only within a backward() call that reaches the node.
C8_Step ==
    /\ Len(nodes') >= Len(nodes)
    /\ \A n \in Idx :
           /\ nodes'[n].data = nodes[n].data
           /\ nodes'[n].child_1 = nodes[n].child_1
           /\ nodes'[n].child_2 = nodes[n].child_2
           /\ nodes'[n].grad_child_1 = nodes[n].grad_child_1
           /\ nodes'[n].grad_child_2 = nodes[n].grad_child_2
           /\ nodes'[n].grad # nodes[n].grad =>
                  /\ last'.op = "backward"
                  /\ calls' # calls \/ stack # <<>>
                  /\ n \in Cone(nodes, calls'[Len(calls')])

\* C8: a node's data, operands and local derivatives never change after its
\* construction; its grad changes only during a backward() call that starts
\* at it or reaches it, so it is 0.0 until such a call, however many
\* operations were built from it.
C8_Frame == []C8_Untouched /\ [][C8_Step]_vars

\* After a backward() call, a new node is built from a node that holds a
\* grad and from an operand of an earlier node that no call has reached.
C8_Witness ==
    /\ Len(calls) > 0
    /\ last.op \in {"add", "sub", "mul", "truediv"} /\ last.err = ""
    /\ ~RIsZero(nodes[last.self].grad)
    /\ ~Reached(last.other)
    /\ \E m \in Idx : m # last.out /\ nodes[m].child_1 = last.other
    /\ nodes[last.other].grad = Zero

\* The deposits one backward() call from r makes into n.
Deposits(r, n) == IF n = r THEN 0 ELSE NumPaths(nodes, r, n)

C9_Counts ==
    (last.op = "backward" /\ stack = <<>>) =>
        \A n \in Idx : visits[n] = Deposits(Root, n)

\* A traverse() call that deposits adds the parent's grad as accumulated so
\* far times the local derivative, and recurses into the operand at once.
C9_Step ==
    (stack # <<>> /\ Len(stack') > Len(stack)) =>
        LET n == stack[Len(stack)].node
            k == stack[Len(stack)].slot
            other == Child(nodes, n, k)
        IN /\ other # 0
           /\ nodes'[other].grad =
                  RAdd(nodes[other].grad,
                       RMul(nodes[n].grad, GradChild(nodes, n, k)))
           /\ visits'[other] = visits[other] + 1
           /\ stack'[Len(stack')] = Frame(other, 1)

\* C9: one backward() call from r deposits into a node once per operand
\* path from r to it (the two slots being distinct edges), each deposit
\* using the parent's grad accumulated so far and recursing at once, so the
\* operands of a shared non-leaf node are visited once per path.
C9_DepositPerPath == []C9_Counts /\ [][C9_Step]_vars

\* A non-leaf node reached by two paths, whose operand was therefore
\* visited twice with partial contributions that do not add up to the
\* derivative.
C9_Witness ==
    /\ last.op = "backward" /\ stack = <<>> /\ Len(calls) = 1
    /\ \E z \in Idx :
           /\ ~IsLeaf(nodes[z])
           /\ visits[z] = 2
           /\ visits[nodes[z].child_1] >= 2
           /\ nodes[nodes[z].child_1].grad
                  # TrueGrad(nodes, Root, nodes[z].child_1)

LeafShape(v) ==
    /\ v.child_1 = 0 /\ v.child_2 = 0
    /\ v.grad_child_1 = None /\ v.grad_child_2 = None

UnaryShape(v) ==
    /\ v.child_1 # 0 /\ v.grad_child_1 # None
    /\ v.child_2 = 0 /\ v.grad_child_2 = None

BinaryShape(v) ==
    /\ v.child_1 # 0 /\ v.grad_child_1 # None
    /\ v.child_2 # 0 /\ v.grad_child_2 # None

\* C11: every node is a leaf (no operand, no local derivative), a unary
\* result (first operand and first local derivative only) or a binary
\* result (both operands and both local derivatives); so in each slot the
\* operand is set exactly when the local derivative is, and every operand
\* traverse() follows comes with a number to multiply by.
C11_NodeShapes ==
    \A n \in Idx :
        /\ LeafShape(nodes[n]) \/ UnaryShape(nodes[n]) \/ BinaryShape(nodes[n])
        /\ \A k \in 1..2 :
               /\ Child(nodes, n, k) # 0 <=> GradChild(nodes, n, k) # None
               /\ Child(nodes, n, k) # 0 =>
                      /\ Child(nodes, n, k) \in 1..(n - 1)
                      /\ GradChild(nodes, n, k) \in Int \X Int

\* A backward() call has gone from a binary result through a unary result
\* to a leaf, depositing into each.
C11_Witness ==
    /\ Len(calls) > 0 /\ stack = <<>> /\ last.op = "backward"
    /\ BinaryShape(nodes[Root])
    /\ UnaryShape(nodes[nodes[Root].child_1])
    /\ LeafShape(nodes[nodes[nodes[Root].child_1].child_1])
    /\ visits[nodes[Root].child_1] > 0
    /\ visits[nodes[nodes[Root].child_1].child_1] > 0

\* The number of operand references from r down to n, in a tree under r.
RECURSIVE Depth(_, _, _)
Depth(ns, r, n) ==
    IF r = n THEN 0
    ELSE IF ns[r].child_1 # 0 /\ n \in Cone(ns, ns[r].child_1)
         THEN 1 + Depth(ns, ns[r].child_1, n)
         ELSE 1 + Depth(ns, ns[r].child_2, n)

\* The step is the second backward() call on the start node of the first.
SecondBackward ==
    /\ Len(calls) = 1
    /\ calls' = <<calls[1], calls[1]>>

C12_Step ==
    (SecondBackward /\ TreeShaped(nodes, calls[1])) =>
        /\ nodes'[calls[1]].grad = One
        /\ \A n \in Cone(nodes, calls[1]) \ {calls[1]} :
               /\ nodes[n].grad = TrueGrad(nodes, calls[1], n)
               /\ nodes'[n].grad =
                      RMul(R(Depth(nodes, calls[1], n) + 1), nodes[n].grad)

\* C12: backward() resets the start node's grad only and adds to the grads
\* the other nodes already hold: a second backward() call on the root of a
\* tree-shaped expression, whose grads were all 0.0 before the first call,
\* leaves the root at 1.0 and a node d >= 1 operand references below the
\* root at (d + 1) times the partial derivative it held after the first
\* call.
C12_SecondBackwardAccumulates == [][C12_Step]_vars

\* Two backward() calls on the root of a tree have returned, and a node two
\* references below the root holds three times its nonzero derivative, which
\* is not what it held after the first call.
C12_Witness ==
    /\ Len(calls) = 2 /\ calls[1] = calls[2] /\ stack = <<>>
    /\ TreeShaped(nodes, calls[1])
    /\ nodes[calls[1]].grad = One
    /\ \E n \in Cone(nodes, calls[1]) :
           /\ Depth(nodes, calls[1], n) = 2
           /\ ~RIsZero(TrueGrad(nodes, calls[1], n))
           /\ nodes[n].grad = RMul(R(3), TrueGrad(nodes, calls[1], n))
           /\ nodes[n].grad # TrueGrad(nodes, calls[1], n)
    /\ \E m \in Cone(nodes, calls[1]) :
           /\ Depth(nodes, calls[1], m) = 1
           /\ nodes[m].grad = RMul(R(2), TrueGrad(nodes, calls[1], m))

====
